---- MODULE Spec2Model ----
(***************************************************************************)
(* Artemis (src/artemis.py): the evidence record ArtemisResult, the two    *)
(* workflows DocxParser.parse and PdfParser.parse, and the router          *)
(* VersionDetector.detect, as a state machine.                             *)
(*                                                                         *)
(* Python values are encoded as follows.                                   *)
(*   - a test outcome True / False / None is the string "True" / "False"   *)
(*     / "None";                                                           *)
(*   - a Python list is a sequence;                                        *)
(*   - a value that is either None or an object (declared title, declared  *)
(*     version, a match dictionary, an attribute whose class default is    *)
(*     None and which later holds a list, a dictionary entry that may be   *)
(*     missing) is the empty sequence for None / missing and the one       *)
(*     element sequence <<v>> for the object v.                            *)
(* possible_versions and test_results are attributes of the CLASS          *)
(* ArtemisResult (lines 70 and 76) and are only ever mutated in place, so  *)
(* the model has one copy of each, shared by every instance.               *)
(*                                                                         *)
(* Spec runs the evaluations of one process one after the other, ConcSpec  *)
(* interleaves two of them.  ExcludeSpec, FuzzySpec and CleanUpSpec apply  *)
(* one function on its own (exclude_versions, find_match_in_extracted_text *)
(* and its clean-up of the text) to inputs drawn from bounded sets; the    *)
(* variable call holds the arguments and the result of the last call.      *)
(***************************************************************************)
EXTENDS Integers, Sequences, FiniteSets, TLC

\* ------------------------------------------------------------------------
\* Bounds of the model
\* ------------------------------------------------------------------------
MaxDocs == 2            \* evaluations started in one process
MaxExcludeLen == 2      \* labels in one list handed to exclude_versions
MaxEdits == 3           \* edit operations between a query and a piece of text
MaxTextLen == 4         \* characters of a text handed to the whitespace clean-up
Slots == 1..2           \* parser instances that may exist at the same time

\* ------------------------------------------------------------------------
\* Program constants
\* ------------------------------------------------------------------------
SMUR == "submitted manuscript"
AM == "accepted manuscript"
P == "proof"
VOR == "version of record"

NUMBER_OF_CHARACTERS_IN_ONE_PAGE == 2600
\* min_similarity = 0.9, in percent
MinSimilarity == 90

PUBLISHER_PDF_METADATA_TAGS ==
    << "/CrossMarkDomains#5B1#5D", "/CrossMarkDomains#5B2#5D",
       "/CrossmarkDomainExclusive", "/CrossmarkMajorVersionDate",
       "/doi", "/ElsevierWebPDFSpecifications", "/Keywords" >>

\* class attributes of ArtemisResult that are rebound per instance
ClassPossibleVersions == << SMUR, AM, P, VOR >>
ClassSmurProb == 194
ClassAmProb == 5182
ClassPProb == 32
ClassVorOaProb == 3286
ClassVorPwProb == 866

\* ------------------------------------------------------------------------
\* Python helpers
\* ------------------------------------------------------------------------
None == << >>
Some(v) == << v >>

\* truth value of a tri-state test outcome
Truthy(t) == t = "True"
\* truth value of a list, of None, or of a None-or-object value
NonEmpty(s) == Len(s) > 0
\* truth value of an attribute that is None or a list
TruthyList(o) == Len(o) > 0 /\ Len(o[1]) > 0

Range(s) == { s[k] : k \in 1..Len(s) }

\* str(x) of a None-or-string value, as used by str.format
Str(o) == IF o = None THEN "None" ELSE o[1]

\* str.lower() on the declared versions the model uses
Lower(s) ==
    CASE s = "Accepted Manuscript" -> "accepted manuscript"
      [] s = "SUBMITTED VERSION"   -> "submitted version"
      [] OTHER                     -> s

\* list.remove(v): drops the first occurrence of v
RECURSIVE ListRemove(_, _)
ListRemove(l, v) ==
    IF l = << >> THEN << >>
    ELSE IF Head(l) = v THEN Tail(l)
    ELSE << Head(l) >> \o ListRemove(Tail(l), v)

\* ArtemisResult.exclude_versions
\* mutant: the loop of exclude_versions returns after the first label
exclude_versions_first_only(pv, e_list) ==
    IF e_list = << >> THEN pv
    ELSE IF Head(e_list) \in Range(pv) THEN ListRemove(pv, Head(e_list)) ELSE pv

RECURSIVE exclude_versions(_, _)
exclude_versions(pv, e_list) ==
    IF e_list = << >> THEN pv
    ELSE LET v == Head(e_list)
         IN  exclude_versions(IF v \in Range(pv) THEN ListRemove(pv, v) ELSE pv,
                              Tail(e_list))


\* ------------------------------------------------------------------------
\* Inputs: what the external collaborators hand to the workflows
\* ------------------------------------------------------------------------
DeclaredTitles == { None, Some("A Title") }
DeclaredVersions ==
    { None, Some(AM), Some("Accepted Manuscript"),
      Some("submitted version"), Some(VOR) }

\* file extensions handed to VersionDetector
Extensions == { ".pdf", ".docx", ".doc", ".xyz" }

\* value of the title field of the file metadata: None for a missing key, else
\* the SequenceMatcher ratio (in percent) of the field against the declared title
MetadataTitles == { None, Some(100), Some(89) }

\* publisher tags of a PDF's metadata: tag name -> value ("" is an empty value)
TagDicts ==
    { << >>,
      << [tag |-> "/doi", value |-> ""] >>,
      << [tag |-> "/Keywords", value |-> "k"],
         [tag |-> "/doi", value |-> "10.1000/j.1"] >> }

\* an extracted text: its length and what the searches find in it
TextLengths == { 0, 7799, 10000 }
Texts ==
    { [len |-> 0, title |-> FALSE, doi |-> None, cc |-> None] } \cup
    { [len |-> n, title |-> t, doi |-> d, cc |-> c] :
        n \in TextLengths \ {0}, t \in BOOLEAN,
        d \in { None, Some("10.1000/j.1") },
        c \in { None, Some("CC BY") } }

\* what the DOI endpoint does with one request
ResolverOutcomes == { "ok", "not ok", "raises" }
\* ... for a DOI, or for no DOI (then no request is made)
AnswersFor(doi) == IF doi = None THEN { "not asked" } ELSE ResolverOutcomes

\* the texts the editable-document workflow is run on
DocxTexts == { t \in Texts : t.doi = None /\ t.cc = None }

\* output of the bibliographic pipeline (CERMINE): doi and title it extracted
\* (the title as its SequenceMatcher ratio against the declared title)
CermOutputs ==
    { [doi |-> None, title |-> None],
      [doi |-> Some("10.1000/j.1"), title |-> Some(100)] }

\* publisher logos of the reference catalogue with the versions they indicate
LogoCatalogue == { "journal logo", "oa logo" }
indicate_ms_versions(logo) ==
    IF logo = "oa logo" THEN << VOR >> ELSE << P, VOR >>

\* the images CERMINE extracted: file name carries the page, and the
\* catalogue logos the image's hash matches
ImageFolders ==
    { << >>,
      << [page |-> 2, logos |-> << "oa logo" >>] >>,
      << [page |-> 1, logos |-> << "journal logo" >>],
         [page |-> 3, logos |-> << "oa logo" >>] >> }

\* ------------------------------------------------------------------------
\* State
\* ------------------------------------------------------------------------
VARIABLES
    possible_versions,  \* ArtemisResult.possible_versions (class attribute)
    test_results,       \* ArtemisResult.test_results (class attribute)
    pc,                 \* per parser instance: position in detect()/parse()
    parser,             \* per parser instance: fields of the parser
    r,                  \* per parser instance: the ArtemisResult instance
    out,                \* per parser instance: what detect() returned
    call,               \* the last call of a function applied on its own
    evaluations         \* number of evaluations started in this process

vars == << possible_versions, test_results, pc, parser, r, out, evaluations, call >>

TestNames ==
    { "test_title_match_in_file_metadata",
      "extract_publisher_tags_from_file_metadata",
      "test_length_of_extracted_text",
      "test_title_match_in_extracted_text",
      "test_valid_doi_in_extracted_text",
      "find_cc_statement_in_extracted_text",
      "test_valid_doi_in_cermine_xml",
      "test_title_match_cermxml",
      "test_file_has_image_on_first_page",
      "detect_publisher_logos" }

EmptyTestResults == [ t \in TestNames |-> None ]

\* ArtemisResult.append_test_result: dict.update on the class-level dict
append_test_result(tr, name, result) == [ tr EXCEPT ![name] = Some(result) ]

\* a fresh ArtemisResult: every attribute is still the class default
NewArtemisResult(input_filename) ==
    [ input_filename |-> input_filename,
      smur_prob |-> ClassSmurProb,
      am_prob |-> ClassAmProb,
      p_prob |-> ClassPProb,
      vor_oa_prob |-> ClassVorOaProb,
      vor_pw_prob |-> ClassVorPwProb,
      sanity_check |-> "None",
      approve_deposit |-> FALSE,
      reason |-> None,
      long_enough |-> "None",
      title_match_file_metadata |-> "None",
      title_match_extracted_text |-> "None",
      extracted_publisher_tags_in_file_metadata |-> None,
      valid_doi_in_extracted_text |-> "None",
      cc_match_extracted_text |-> None,
      valid_doi_in_cermine_xml |-> "None",
      title_match_cermine_xml |-> "None",
      image_on_first_page |-> "None",
      detected_logos |-> None ]

NoText == [len |-> 0, title |-> FALSE, doi |-> None, cc |-> None]

\* BaseParser.__init__ / PdfParser.__init__
NewParser(ext, dec_ms_title, dec_version) ==
    [ file_ext |-> ext,
      file_name |-> "file" \o ext,
      dec_ms_title |-> dec_ms_title,
      dec_version |-> dec_version,
      title_in_metadata |-> None,
      publisher_tags |-> << >>,
      extracted_text |-> NoText,
      cerm_doi |-> None,
      cerm_title |-> None,
      images |-> << >>,
      doi_answer |-> "not asked",
      cerm_doi_answer |-> "not asked" ]

NoParser == NewParser("", None, None)
NoResult == NewArtemisResult("")
NoOutput == [ kind |-> "none" ]
NoCall == [ fn |-> "none" ]

\* ArtemisResult.json_response
json_response(res, tr) ==
    [ kind |-> "json",
      input_file |-> res.input_filename,
      approve_deposit |-> res.approve_deposit,
      reason |-> res.reason,
      version_confidence |->
        [ SMUR |-> << res.smur_prob, 100 >>,
          AM |-> << res.am_prob, 100 >>,
          P |-> << res.p_prob, 100 >>,
          VOR |-> << res.vor_oa_prob + res.vor_pw_prob, 100 >>,
          VOR_oa |-> << res.vor_oa_prob, 100 >>,
          VOR_pw |-> << res.vor_pw_prob, 100 >> ],
      sanity_check |-> res.sanity_check,
      test_results |-> tr ]

Init ==
    /\ possible_versions = ClassPossibleVersions
    /\ test_results = EmptyTestResults
    /\ pc = [ i \in Slots |-> "idle" ]
    /\ parser = [ i \in Slots |-> NoParser ]
    /\ r = [ i \in Slots |-> NoResult ]
    /\ out = [ i \in Slots |-> NoOutput ]
    /\ call = NoCall
    /\ evaluations = 0


\* ------------------------------------------------------------------------
\* The heuristic tests
\* ------------------------------------------------------------------------
\* BaseParser.test_title_match_in_file_metadata
test_title_match_in_file_metadata(p) ==
    IF NonEmpty(p.dec_ms_title) /\ NonEmpty(p.title_in_metadata)
    THEN IF p.title_in_metadata[1] >= MinSimilarity THEN "True" ELSE "False"
    ELSE "None"

\* mutant: the length test without its guard for a missing text
test_length_unguarded(p) ==
    IF p.extracted_text.len >= 3 * NUMBER_OF_CHARACTERS_IN_ONE_PAGE
    THEN "True" ELSE "False"

\* BaseParser.test_length_of_extracted_text
test_length_of_extracted_text(p) ==
    IF p.extracted_text.len > 0
    THEN IF p.extracted_text.len >= 3 * NUMBER_OF_CHARACTERS_IN_ONE_PAGE
         THEN "True" ELSE "False"
    ELSE "None"

\* BaseParser.test_title_match_in_extracted_text
test_title_match_in_extracted_text(p) ==
    IF NonEmpty(p.dec_ms_title)
    THEN IF p.extracted_text.title THEN "True" ELSE "False"
    ELSE "None"

\* BaseParser.find_doi_in_extracted_text: the match, or None
find_doi_in_extracted_text(p) == p.extracted_text.doi

\* BaseParser.find_cc_statement_in_extracted_text: the match, or None
find_cc_statement_in_extracted_text(p) == p.extracted_text.cc

\* BaseParser.test_doi_resolves with a DOI given, for an answer of the endpoint
\* (an endpoint that raises has no return value: see the actions)
test_doi_resolves(answer) == IF answer = "ok" THEN "True" ELSE "False"

\* PdfParser.extract_publisher_tags_from_file_metadata
RECURSIVE TagsFrom(_, _)
TagsFrom(tags, metadata) ==
    IF tags = << >> THEN << >>
    ELSE LET tag == Head(tags)
             hit == \E k \in 1..Len(metadata) :
                       metadata[k].tag = tag /\ metadata[k].value # ""
         IN  (IF hit THEN << tag >> ELSE << >>) \o TagsFrom(Tail(tags), metadata)

extract_publisher_tags_from_file_metadata(p) ==
    TagsFrom(PUBLISHER_PDF_METADATA_TAGS, p.publisher_tags)

\* PdfParser.test_title_match_cermxml
test_title_match_cermxml(p) ==
    IF NonEmpty(p.dec_ms_title) /\ NonEmpty(p.cerm_title)
    THEN IF p.cerm_title[1] >= MinSimilarity THEN "True" ELSE "False"
    ELSE "None"

\* PdfParser.test_file_has_image_on_first_page
test_file_has_image_on_first_page(p) ==
    IF \E k \in 1..Len(p.images) : p.images[k].page = 1 THEN "True" ELSE "False"

\* PdfParser.detect_publisher_logos
RECURSIVE LogosOf(_)
LogosOf(images) ==
    IF images = << >> THEN << >>
    ELSE Head(images).logos \o LogosOf(Tail(images))

detect_publisher_logos(p) == LogosOf(p.images)

\* PdfParser.parse, lines 700-704: the versions the detected logos suggest
RECURSIVE AppendNew(_, _)
AppendNew(acc, versions) ==
    IF versions = << >> THEN acc
    ELSE AppendNew(IF Head(versions) \in Range(acc) THEN acc
                   ELSE Append(acc, Head(versions)),
                   Tail(versions))

RECURSIVE suggested_versions(_, _)
suggested_versions(acc, logos) ==
    IF logos = << >> THEN acc
    ELSE suggested_versions(AppendNew(acc, indicate_ms_versions(Head(logos))),
                            Tail(logos))

\* PdfParser.parse, lines 706-708: the loop over reversed(r.possible_versions),
\* which removes from the list it walks; k is the iterator's index (from 1)
RECURSIVE RefineFrom(_, _, _)
RefineFrom(pv, k, suggested) ==
    IF k < 1 \/ k > Len(pv) THEN pv
    ELSE RefineFrom(IF pv[k] \notin Range(suggested)
                    THEN exclude_versions(pv, << pv[k] >>) ELSE pv,
                    k - 1, suggested)

\* mutant: the loop walks the list forwards while it removes from it
RECURSIVE RefineForwardFrom(_, _, _)
RefineForwardFrom(pv, k, suggested) ==
    IF k > Len(pv) THEN pv
    ELSE RefineForwardFrom(IF pv[k] \notin Range(suggested)
                           THEN exclude_versions(pv, << pv[k] >>) ELSE pv,
                           k + 1, suggested)

RefineByLogosForward(pv, logos) ==
    RefineForwardFrom(pv, 1, suggested_versions(<< >>, logos))

RefineByLogos(pv, logos) ==
    RefineFrom(pv, Len(pv), suggested_versions(<< >>, logos))


\* ------------------------------------------------------------------------
\* The workflows, region by region.  A region maps a context
\*   [p: the parser, r: the ArtemisResult instance,
\*    pv / tr: the class-level possible_versions / test_results,
\*    raised: an exception left the region]
\* to the context after it.
\* ------------------------------------------------------------------------
Ctx(p, res, pv, tr) == [ p |-> p, r |-> res, pv |-> pv, tr |-> tr, raised |-> FALSE ]

\* the reasons the workflows give
ReasonPlausible == << "Declared version is plausible" >>
ReasonMismatch(p) ==
    << "This is either a submitted or accepted version, but declared version is {}",
       Str(p.dec_version) >>
ReasonNoTitle(p) ==
    << "Could not find declared title ({}) in file {}", Str(p.dec_ms_title), p.file_name >>
ReasonShort(p) ==
    << "File {} is quite short for a journal article. Please check.", p.file_name >>
ReasonTagsButAuthor ==
    << "PDF metadata contains publisher tags, but declared version is author-generated" >>
ReasonCC == << "Create Commons licence detected in extracted text" >>
ReasonPublisherNoCC == << "Publisher-generated version; no evidence of CC licence" >>
ReasonNoPublisherEvidence ==
    << "Could not find any evidence that this PDF is publisher-generated" >>

\* the sanity condition of both workflows (lines 393 and 713)
SanityCondition(res) ==
    Truthy(res.long_enough) /\
    (Truthy(res.title_match_file_metadata) \/ Truthy(res.title_match_extracted_text))

\* the literal list of line 720 and 728
AuthorVersions == << "submitted version", "accepted version", SMUR, AM >>

\* DocxParser.parse, lines 368-374
DocxNewResult(c) ==
    [ c EXCEPT
        !.pv = exclude_versions(c.pv, << P, VOR >>),
        !.r = [ NewArtemisResult(c.p.file_name) EXCEPT
                  !.smur_prob = 5000, !.am_prob = 5000,
                  !.p_prob = 0, !.vor_oa_prob = 0, !.vor_pw_prob = 0 ] ]

\* DocxParser.parse, lines 376-380
DocxMetadataRegion(c) ==
    LET t == test_title_match_in_file_metadata(c.p)
    IN  [ c EXCEPT
            !.tr = append_test_result(c.tr, "test_title_match_in_file_metadata", t),
            !.r.title_match_file_metadata = t ]

\* lines 382-391 and 646-655: length and title tests on the extracted text
TextTests(c) ==
    LET l == test_length_of_extracted_text(c.p)
        t == test_title_match_in_extracted_text(c.p)
    IN  [ c EXCEPT
            !.tr = append_test_result(
                     append_test_result(c.tr, "test_length_of_extracted_text", l),
                     "test_title_match_in_extracted_text", t),
            !.r.long_enough = l,
            !.r.title_match_extracted_text = t ]

\* mutant: the failure branch gives a reason for a short file only
SanityFailedShortOnly(c) ==
    IF Truthy(c.r.long_enough) THEN c
    ELSE [ c EXCEPT !.r.reason = ReasonShort(c.p) ]

\* the failure branch shared by both workflows (lines 401-405 and 734-738)
SanityFailed(c) ==
    [ c EXCEPT !.r.reason = IF Truthy(c.r.long_enough)
                            THEN ReasonNoTitle(c.p) ELSE ReasonShort(c.p) ]

\* DocxParser.parse, lines 393-405
DocxDecision(c) ==
    IF SanityCondition(c.r)
    THEN LET c1 == [ c EXCEPT !.r.sanity_check = "True" ]
         IN  IF c.p.dec_version = None
             THEN [ c1 EXCEPT !.raised = TRUE ]     \* None has no lower()
             ELSE IF Lower(c.p.dec_version[1]) \in Range(c.pv)
                  THEN [ c1 EXCEPT !.r.approve_deposit = TRUE,
                                   !.r.reason = ReasonPlausible ]
                  ELSE [ c1 EXCEPT !.r.reason = ReasonMismatch(c.p) ]
    ELSE SanityFailed(c)

\* PdfParser.parse, lines 615-620
PdfNewResult(c) ==
    [ c EXCEPT
        !.r = [ NewArtemisResult(c.p.file_name) EXCEPT
                  !.smur_prob = 2500, !.am_prob = 2500, !.p_prob = 2500,
                  !.vor_oa_prob = 1250, !.vor_pw_prob = 1250 ] ]

\* mutant: publisher tags exclude the author versions but leave their weights
PdfMetadataRegionKeepsWeights(c) ==
    LET t == test_title_match_in_file_metadata(c.p)
        tags == extract_publisher_tags_from_file_metadata(c.p)
    IN  [ c EXCEPT
            !.tr = append_test_result(
                     append_test_result(c.tr, "test_title_match_in_file_metadata", t),
                     "extract_publisher_tags_from_file_metadata", tags),
            !.r.title_match_file_metadata = t,
            !.r.extracted_publisher_tags_in_file_metadata = Some(tags),
            !.pv = IF NonEmpty(tags)
                   THEN exclude_versions(c.pv, << SMUR, AM >>) ELSE c.pv ]

\* PdfParser.parse, lines 624-643
PdfMetadataRegion(c) ==
    LET t == test_title_match_in_file_metadata(c.p)
        tags == extract_publisher_tags_from_file_metadata(c.p)
        c1 == [ c EXCEPT
                  !.tr = append_test_result(
                           append_test_result(c.tr, "test_title_match_in_file_metadata", t),
                           "extract_publisher_tags_from_file_metadata", tags),
                  !.r.title_match_file_metadata = t,
                  !.r.extracted_publisher_tags_in_file_metadata = Some(tags) ]
    IN  IF NonEmpty(tags)
        THEN [ c1 EXCEPT
                 !.pv = exclude_versions(
                          exclude_versions(c.pv, << "submitted version", SMUR >>),
                          << "accepted version", AM >>),
                 !.r.smur_prob = 0,
                 !.r.am_prob = 0 ]
        ELSE c1

\* PdfParser.parse, lines 657-668: DOI of the text and CC licence; answer is
\* what the DOI endpoint does if it is asked
PdfDoiAndLicence(c, answer) ==
    LET doi == find_doi_in_extracted_text(c.p)
        cc == find_cc_statement_in_extracted_text(c.p)
        c1 == IF NonEmpty(doi)
              THEN [ c EXCEPT
                       !.tr = append_test_result(c.tr, "test_valid_doi_in_extracted_text",
                                                 test_doi_resolves(answer)),
                       !.r.valid_doi_in_extracted_text = test_doi_resolves(answer) ]
              ELSE c
    IN  IF NonEmpty(doi) /\ answer = "raises"
        THEN [ c EXCEPT !.raised = TRUE ]      \* requests.get raised: no handler
        ELSE [ c1 EXCEPT
                 !.tr = append_test_result(c1.tr, "find_cc_statement_in_extracted_text", cc),
                 !.r.cc_match_extracted_text = cc ]

\* PdfParser.parse, lines 645-669
PdfTextRegion(c, answer) == PdfDoiAndLicence(TextTests(c), answer)

\* PdfParser.parse, lines 671-684
PdfCermineRegion(c, answer) ==
    LET t == test_title_match_cermxml(c.p)
        c1 == IF NonEmpty(c.p.cerm_doi)
              THEN [ c EXCEPT
                       !.tr = append_test_result(c.tr, "test_valid_doi_in_cermine_xml",
                                                 test_doi_resolves(answer)),
                       !.r.valid_doi_in_cermine_xml = test_doi_resolves(answer) ]
              ELSE c
    IN  IF NonEmpty(c.p.cerm_doi) /\ answer = "raises"
        THEN [ c EXCEPT !.raised = TRUE ]
        ELSE [ c1 EXCEPT
                 !.tr = append_test_result(c1.tr, "test_title_match_cermxml", t),
                 !.r.title_match_cermine_xml = t ]

\* PdfParser.parse, lines 686-710
PdfLogoRegion(c) ==
    LET img == test_file_has_image_on_first_page(c.p)
        logos == detect_publisher_logos(c.p)
    IN  [ c EXCEPT
            !.tr = append_test_result(
                     append_test_result(c.tr, "test_file_has_image_on_first_page", img),
                     "detect_publisher_logos", logos),
            !.r.image_on_first_page = img,
            !.r.detected_logos = Some(logos),
            !.pv = IF NonEmpty(logos) THEN RefineByLogos(c.pv, logos) ELSE c.pv ]

\* mutant: the publisher branch without the rule for a detected licence
PdfPublisherBranchNoLicenceRule(c) ==
    LET c1 == [ c EXCEPT !.pv = exclude_versions(c.pv, << SMUR, AM >>) ]
    IN  IF c.p.dec_version = None
        THEN [ c1 EXCEPT !.raised = TRUE ]
        ELSE IF Lower(c.p.dec_version[1]) \in Range(AuthorVersions)
             THEN [ c1 EXCEPT !.r.reason = ReasonTagsButAuthor ]
             ELSE [ c1 EXCEPT !.r.reason = ReasonPublisherNoCC ]

\* PdfParser.parse, lines 716-726: the file is publisher-generated
PdfPublisherBranch(c) ==
    LET c1 == [ c EXCEPT !.pv = exclude_versions(c.pv, << SMUR, AM >>) ]
    IN  IF c.p.dec_version = None
        THEN [ c1 EXCEPT !.raised = TRUE ]
        ELSE LET c2 == IF Lower(c.p.dec_version[1]) \in Range(AuthorVersions)
                       THEN [ c1 EXCEPT !.r.reason = ReasonTagsButAuthor ]
                       ELSE c1
             IN  IF NonEmpty(c.r.cc_match_extracted_text)
                 THEN [ c2 EXCEPT !.r.reason = ReasonCC, !.r.approve_deposit = TRUE ]
                 ELSE [ c2 EXCEPT !.r.reason = ReasonPublisherNoCC ]

\* mutant: the declared version is compared without lower()
PdfAuthorBranchCaseSensitive(c) ==
    IF c.p.dec_version = None
    THEN [ c EXCEPT !.raised = TRUE ]
    ELSE IF c.p.dec_version[1] \in Range(AuthorVersions)
         THEN [ c EXCEPT !.r.approve_deposit = TRUE,
                         !.r.reason = ReasonNoPublisherEvidence ]
         ELSE [ c EXCEPT !.r.reason = ReasonMismatch(c.p) ]

\* PdfParser.parse, lines 727-733: no sign of a publisher
PdfAuthorBranch(c) ==
    IF c.p.dec_version = None
    THEN [ c EXCEPT !.raised = TRUE ]
    ELSE IF Lower(c.p.dec_version[1]) \in Range(AuthorVersions)
         THEN [ c EXCEPT !.r.approve_deposit = TRUE,
                         !.r.reason = ReasonNoPublisherEvidence ]
         ELSE [ c EXCEPT !.r.reason = ReasonMismatch(c.p) ]

\* mutant: the decision without the sanity condition in front of it
PdfDecisionNoSanityGate(c) ==
    IF TruthyList(c.r.extracted_publisher_tags_in_file_metadata)
       \/ NonEmpty(c.r.cc_match_extracted_text)
    THEN PdfPublisherBranch(c)
    ELSE PdfAuthorBranch(c)

\* PdfParser.parse, lines 712-739
PdfDecision(c) ==
    IF SanityCondition(c.r)
    THEN LET c1 == [ c EXCEPT !.r.sanity_check = "True" ]
         IN  IF TruthyList(c.r.extracted_publisher_tags_in_file_metadata)
                \/ NonEmpty(c.r.cc_match_extracted_text)
             THEN PdfPublisherBranch(c1)
             ELSE PdfAuthorBranch(c1)
    ELSE SanityFailed(c)


\* ------------------------------------------------------------------------
\* Actions: VersionDetector.detect and the regions of the two parse() methods
\* ------------------------------------------------------------------------
\* the state after a region of instance i that ended in context c
Continue(i, c, next) ==
    /\ parser' = [ parser EXCEPT ![i] = c.p ]
    /\ r' = [ r EXCEPT ![i] = c.r ]
    /\ possible_versions' = c.pv
    /\ test_results' = c.tr
    /\ pc' = [ pc EXCEPT ![i] = IF c.raised THEN "raised" ELSE next ]
    /\ out' = [ out EXCEPT ![i] = IF c.raised THEN [ kind |-> "exception" ]
                                  ELSE IF next = "done"
                                       THEN json_response(c.r, c.tr)
                                       ELSE out[i] ]
    /\ UNCHANGED call

Here(i) == Ctx(parser[i], r[i], possible_versions, test_results)

\* the extensions VersionDetector.check_extension names "editable_document"
EditableExtensions ==
    { ".doc", ".html", ".htm", ".odt", ".ppt", ".pptx", ".rtf", ".tex", ".txt" }

\* mutant: the other editable formats are routed to the docx parser
check_extension_editable_as_docx(file_ext) ==
    IF file_ext = ".pdf" THEN "pdf"
    ELSE IF file_ext = ".docx" \/ file_ext \in EditableExtensions THEN "docx"
    ELSE file_ext

\* VersionDetector.check_extension
check_extension(file_ext) ==
    IF file_ext = ".pdf" THEN "pdf"
    ELSE IF file_ext = ".docx" THEN "docx"
    ELSE IF file_ext \in EditableExtensions THEN "editable_document"
    ELSE file_ext

\* VersionDetector.detect, ext == "docx", up to line 374 of DocxParser.parse
DetectDocx(i) ==
    /\ pc[i] = "idle"
    /\ evaluations < MaxDocs
    /\ evaluations' = evaluations + 1
    /\ \E ext \in Extensions, title \in DeclaredTitles, version \in DeclaredVersions :
          /\ check_extension(ext) = "docx"
          /\ Continue(i, DocxNewResult(Ctx(NewParser(ext, title, version), r[i],
                                           possible_versions, test_results)),
                      "docx_metadata")

\* DocxParser.parse, lines 376-380 (the key 'title' is always in the metadata)
DocxMetadata(i) ==
    /\ pc[i] = "docx_metadata"
    /\ \E m \in MetadataTitles \ { None } :
          Continue(i, DocxMetadataRegion(
                        [ Here(i) EXCEPT !.p.title_in_metadata = m ]),
                   "docx_text")
    /\ UNCHANGED evaluations

\* DocxParser.parse, lines 382-391
DocxText(i) ==
    /\ pc[i] = "docx_text"
    /\ \E t \in DocxTexts :
          Continue(i, TextTests([ Here(i) EXCEPT !.p.extracted_text = t ]),
                   "docx_decision")
    /\ UNCHANGED evaluations

\* DocxParser.parse, lines 393-407
DocxDecide(i) ==
    /\ pc[i] = "docx_decision"
    /\ Continue(i, DocxDecision(Here(i)), "done")
    /\ UNCHANGED evaluations

\* VersionDetector.detect, ext == "pdf", up to line 620 of PdfParser.parse
DetectPdf(i) ==
    /\ pc[i] = "idle"
    /\ evaluations < MaxDocs
    /\ evaluations' = evaluations + 1
    /\ \E ext \in Extensions, title \in DeclaredTitles, version \in DeclaredVersions :
          /\ check_extension(ext) = "pdf"
          /\ Continue(i, PdfNewResult(Ctx(NewParser(ext, title, version), r[i],
                                          possible_versions, test_results)),
                      "pdf_metadata")

\* PdfParser.parse, lines 624-643
PdfMetadata(i) ==
    /\ pc[i] = "pdf_metadata"
    /\ \E m \in MetadataTitles, tags \in TagDicts :
          Continue(i, PdfMetadataRegion(
                        [ Here(i) EXCEPT !.p.title_in_metadata = m,
                                         !.p.publisher_tags = tags ]),
                   "pdf_text")
    /\ UNCHANGED evaluations

\* PdfParser.parse, lines 645-669
PdfText(i) ==
    /\ pc[i] = "pdf_text"
    /\ \E t \in Texts : \E answer \in AnswersFor(t.doi) :
          Continue(i, PdfTextRegion(
                        [ Here(i) EXCEPT !.p.extracted_text = t,
                                         !.p.doi_answer = answer ], answer),
                   "pdf_cermine")
    /\ UNCHANGED evaluations

\* PdfParser.parse, lines 671-684
PdfCermine(i) ==
    /\ pc[i] = "pdf_cermine"
    /\ \E x \in CermOutputs : \E answer \in AnswersFor(x.doi) :
          Continue(i, PdfCermineRegion(
                        [ Here(i) EXCEPT !.p.cerm_doi = x.doi,
                                         !.p.cerm_title = x.title,
                                         !.p.cerm_doi_answer = answer ], answer),
                   "pdf_logos")
    /\ UNCHANGED evaluations

\* PdfParser.parse, lines 686-710
PdfLogos(i) ==
    /\ pc[i] = "pdf_logos"
    /\ \E images \in ImageFolders :
          Continue(i, PdfLogoRegion([ Here(i) EXCEPT !.p.images = images ]),
                   "pdf_decision")
    /\ UNCHANGED evaluations

\* PdfParser.parse, lines 712-741
PdfDecide(i) ==
    /\ pc[i] = "pdf_decision"
    /\ Continue(i, PdfDecision(Here(i)), "done")
    /\ UNCHANGED evaluations

\* VersionDetector.detect, lines 810-813: any other value of check_extension
DetectUnsupported(i) ==
    /\ pc[i] = "idle"
    /\ evaluations < MaxDocs
    /\ evaluations' = evaluations + 1
    /\ \E ext \in Extensions :
          /\ check_extension(ext) \notin { "docx", "pdf" }
          /\ pc' = [ pc EXCEPT ![i] = "failed" ]
          /\ out' = [ out EXCEPT ![i] =
                        [ kind |-> "fail",
                          error_msg |-> << "{} is not a supported file extension",
                                           check_extension(ext) >> ] ]
    /\ UNCHANGED << parser, r, possible_versions, test_results, call >>

\* the caller drops the parser, the ArtemisResult and the returned value
Discard(i) ==
    /\ pc[i] \in { "done", "raised", "failed" }
    /\ pc' = [ pc EXCEPT ![i] = "idle" ]
    /\ parser' = [ parser EXCEPT ![i] = NoParser ]
    /\ r' = [ r EXCEPT ![i] = NoResult ]
    /\ out' = [ out EXCEPT ![i] = NoOutput ]
    /\ UNCHANGED << possible_versions, test_results, evaluations, call >>

\* the program as written: one evaluation at a time
Next ==
    \/ DetectDocx(1)
    \/ DocxMetadata(1)
    \/ DocxText(1)
    \/ DocxDecide(1)
    \/ DetectPdf(1)
    \/ PdfMetadata(1)
    \/ PdfText(1)
    \/ PdfCermine(1)
    \/ PdfLogos(1)
    \/ PdfDecide(1)
    \/ DetectUnsupported(1)
    \/ Discard(1)

Spec == Init /\ [][Next]_vars


\* ------------------------------------------------------------------------
\* Two parser instances at once, in threads of one process: the regions of
\* the two parse() calls interleave.  The documents are of a smaller set.
\* ------------------------------------------------------------------------
ConcDocuments ==
    \A i \in Slots :
        pc[i] # "idle" =>
            /\ parser[i].dec_ms_title # None
            /\ parser[i].dec_version \in { Some(AM), Some(VOR) }
            /\ parser[i].title_in_metadata \in { None, Some(100) }
            /\ parser[i].publisher_tags # << [tag |-> "/doi", value |-> ""] >>
            /\ parser[i].extracted_text.len \in { 0, 10000 }
            /\ parser[i].extracted_text.doi = None
            /\ parser[i].extracted_text.title \/ parser[i].extracted_text.len = 0
            /\ parser[i].cerm_doi = None
            /\ Len(parser[i].images) < 2

ConcDetectDocx(i) == DetectDocx(i) /\ ConcDocuments'
ConcDocxMetadata(i) == DocxMetadata(i) /\ ConcDocuments'
ConcDocxText(i) == DocxText(i) /\ ConcDocuments'
ConcDocxDecide(i) == DocxDecide(i) /\ ConcDocuments'
ConcDetectPdf(i) == DetectPdf(i) /\ ConcDocuments'
ConcPdfMetadata(i) == PdfMetadata(i) /\ ConcDocuments'
ConcPdfText(i) == PdfText(i) /\ ConcDocuments'
ConcPdfCermine(i) == PdfCermine(i) /\ ConcDocuments'
ConcPdfLogos(i) == PdfLogos(i) /\ ConcDocuments'
ConcPdfDecide(i) == PdfDecide(i) /\ ConcDocuments'

ConcNext ==
    \E i \in Slots :
        \/ ConcDetectDocx(i)
        \/ ConcDocxMetadata(i)
        \/ ConcDocxText(i)
        \/ ConcDocxDecide(i)
        \/ ConcDetectPdf(i)
        \/ ConcPdfMetadata(i)
        \/ ConcPdfText(i)
        \/ ConcPdfCermine(i)
        \/ ConcPdfLogos(i)
        \/ ConcPdfDecide(i)

ConcSpec == Init /\ [][ConcNext]_vars

\* ------------------------------------------------------------------------
\* What one evaluation gives when it is the only one the process ever runs
\* ------------------------------------------------------------------------
Then(c, d) == IF c.raised THEN c ELSE d

AloneDocx(p) ==
    LET c0 == DocxNewResult(Ctx(p, NoResult, ClassPossibleVersions, EmptyTestResults))
        c1 == DocxMetadataRegion(c0)
        c2 == TextTests(c1)
    IN  DocxDecision(c2)

AlonePdf(p) ==
    LET c0 == PdfNewResult(Ctx(p, NoResult, ClassPossibleVersions, EmptyTestResults))
        c1 == PdfMetadataRegion(c0)
        c2 == PdfTextRegion(c1, p.doi_answer)
        c3 == Then(c2, PdfCermineRegion(c2, p.cerm_doi_answer))
        c4 == Then(c3, PdfLogoRegion(c3))
    IN  Then(c4, PdfDecision(c4))

Alone(p) == IF p.file_ext = ".docx" THEN AloneDocx(p) ELSE AlonePdf(p)

\* ------------------------------------------------------------------------
\* Vocabulary of the properties
\* ------------------------------------------------------------------------
Returned(i) == pc[i] = "done"
IsDocx(i) == parser[i].file_ext = ".docx"
IsPdf(i) == parser[i].file_ext = ".pdf"
Excluded(v) == v \notin Range(possible_versions)
\* the declared version, compared case-insensitively, is Submitted or Accepted
DeclaresSubmittedOrAccepted(p) ==
    p.dec_version # None /\ Lower(p.dec_version[1]) \in { SMUR, AM }
\* the declared version claims an author manuscript, in any of its spellings
ClaimsAuthorManuscript(p) ==
    p.dec_version # None /\
    Lower(p.dec_version[1]) \in { "submitted version", "accepted version", SMUR, AM }
TagsFound(i) == TruthyList(r[i].extracted_publisher_tags_in_file_metadata)
LicenceFound(i) == NonEmpty(r[i].cc_match_extracted_text)
PositiveReasons == { ReasonPlausible, ReasonCC, ReasonNoPublisherEvidence }

\* ------------------------------------------------------------------------
\* ArtemisResult.exclude_versions applied on its own
\* ------------------------------------------------------------------------
\* no evaluation is running
Idle ==
    /\ test_results = EmptyTestResults
    /\ pc = [ i \in Slots |-> "idle" ]
    /\ parser = [ i \in Slots |-> NoParser ]
    /\ r = [ i \in Slots |-> NoResult ]
    /\ out = [ i \in Slots |-> NoOutput ]
    /\ evaluations = 0

\* the lists possible_versions can hold: exclude_versions only removes, so
\* they are the sub-lists of the class default
CandidateLists ==
    { SelectSeq(ClassPossibleVersions, LAMBDA v : v \in S) :
        S \in SUBSET Range(ClassPossibleVersions) }

\* the lists handed to exclude_versions: labels of the class default, repeated
\* or not, and one label that is never a candidate
ExcludeLabels == Range(ClassPossibleVersions) \cup { "submitted version" }
ExcludeLists == UNION { [ 1..n -> ExcludeLabels ] : n \in 0..MaxExcludeLen }

ExcludeInit ==
    /\ possible_versions \in CandidateLists
    /\ call = NoCall
    /\ Idle

\* r.exclude_versions(e_list)
Exclude ==
    /\ \E e_list \in ExcludeLists :
          /\ possible_versions' = exclude_versions(possible_versions, e_list)
          /\ call' = [ fn |-> "exclude_versions",
                       before |-> possible_versions,
                       e_list |-> e_list ]
    /\ UNCHANGED << test_results, pc, parser, r, out, evaluations >>

ExcludeNext == Exclude

ExcludeSpec == ExcludeInit /\ [][ExcludeNext]_vars

\* ------------------------------------------------------------------------
\* BaseParser.find_match_in_extracted_text applied on its own
\* ------------------------------------------------------------------------
\* A query is its length and the number of its characters regex.escape puts
\* a backslash in front of (the blanks of a title, for one).  A piece of the
\* text is what separates it from the query: the edit operations that fall on
\* the last character of the query and those that fall before it.  The error
\* ratio is in percent.
QueryLengths == { 5, 9, 10, 19, 20, 30 }
QuerySpecials == { 0, 1, 3 }
ErrorRatios == { 0, 10, 20 }

\* lines 200-201: len(regex.escape(query)) or len(query)
pattern_query_length(len, specials, escape_char) ==
    IF escape_char THEN len + specials ELSE len

\* the pattern of line 205, query{e<limit}: the fuzzy constraint binds to the
\* item in front of it, the last character of the query, as a quantifier
\* does, and admits fewer than limit errors there; the rest is matched as is
fuzzy_accepts(limit, edits_before, edits_last) ==
    edits_before = 0 /\ edits_last < limit

\* lines 198-219: "match" for a match dictionary, "None", or "raises": the
\* regex module refuses to compile {e<0}, a cost limit below zero, and
\* regex.error is not the TypeError of line 217
find_match_in_extracted_text(len, specials, escape_char, ratio, before, last) ==
    IF ratio = 0
    THEN IF before + last = 0 THEN "match" ELSE "None"
    ELSE LET limit == (ratio * pattern_query_length(len, specials, escape_char))
                      \div 100
         IN  IF limit = 0 THEN "raises"
             ELSE IF fuzzy_accepts(limit, before, last) THEN "match" ELSE "None"

FuzzyInit ==
    /\ possible_versions = ClassPossibleVersions
    /\ call = NoCall
    /\ Idle

\* one search of a query in a text that holds one piece close to it
FindMatch ==
    /\ \E len \in QueryLengths, specials \in QuerySpecials,
          escape_char \in BOOLEAN, ratio \in ErrorRatios,
          edits_before \in 0..MaxEdits, edits_last \in 0..1 :
          call' = [ fn |-> "find_match_in_extracted_text",
                    len |-> len,
                    specials |-> specials,
                    escape_char |-> escape_char,
                    allowed_error_ratio |-> ratio,
                    edits |-> edits_before + edits_last,
                    result |-> find_match_in_extracted_text(
                                  len, specials, escape_char, ratio,
                                  edits_before, edits_last) ]
    /\ UNCHANGED << possible_versions, test_results, pc, parser, r, out, evaluations >>

FuzzyNext == FindMatch

FuzzySpec == FuzzyInit /\ [][FuzzyNext]_vars

\* ------------------------------------------------------------------------
\* The clean-up of the extracted text (line 209) applied on its own
\* ------------------------------------------------------------------------
\* a text is a sequence of characters: a letter, a blank, a line break
Characters == { "a", " ", "\n" }
ExtractedTexts == UNION { [ 1..n -> Characters ] : n \in 0..MaxTextLen }

\* str.replace('\n', ' ')
replace_line_breaks(s) ==
    [ k \in 1..Len(s) |-> IF s[k] = "\n" THEN " " ELSE s[k] ]

\* str.replace('  ', ' '): one scan from the left over non-overlapping
\* occurrences; what it writes is not scanned again
RECURSIVE replace_two_blanks(_)
replace_two_blanks(s) ==
    IF Len(s) < 2 THEN s
    ELSE IF s[1] = " " /\ s[2] = " "
         THEN << " " >> \o replace_two_blanks(SubSeq(s, 3, Len(s)))
         ELSE << s[1] >> \o replace_two_blanks(Tail(s))

\* line 209
continuous_text(extracted_text) ==
    replace_two_blanks(replace_line_breaks(extracted_text))

CleanUpInit ==
    /\ possible_versions = ClassPossibleVersions
    /\ call = NoCall
    /\ Idle

CleanUp ==
    /\ \E text \in ExtractedTexts :
          call' = [ fn |-> "continuous_text",
                    extracted_text |-> text,
                    result |-> continuous_text(text) ]
    /\ UNCHANGED << possible_versions, test_results, pc, parser, r, out, evaluations >>

CleanUpNext == CleanUp

CleanUpSpec == CleanUpInit /\ [][CleanUpNext]_vars

\* ------------------------------------------------------------------------
\* Properties
\* ------------------------------------------------------------------------

\* C1: in both workflows approve_deposit=True in the returned result implies
\* sanity_check=True; approve_deposit is False until the decision region and
\* is True only together with the reason of one of the positive rules.
C1_ApproveImpliesSanity ==
    \A i \in Slots :
        /\ ~Returned(i) => ~r[i].approve_deposit
        /\ r[i].approve_deposit =>
              r[i].sanity_check = "True" /\ r[i].reason \in PositiveReasons
        /\ Returned(i) =>
              /\ out[i].approve_deposit = r[i].approve_deposit
              /\ out[i].approve_deposit => out[i].sanity_check = "True"

C1_Witness ==
    \E i \in Slots :
        Returned(i) /\ IsPdf(i) /\ out[i].approve_deposit
        /\ out[i].reason = ReasonNoPublisherEvidence

\* C2 (the claim as stated): when an evaluation starts, the candidate set is
\* the full one (narrowed to Submitted and Accepted by the editable-document
\* workflow's own first step) and the test-result map is empty, whatever was
\* evaluated before in the process.
C2_FreshRecordPerDocument ==
    \A i \in Slots :
        /\ pc[i] = "pdf_metadata" =>
              possible_versions = ClassPossibleVersions
              /\ test_results = EmptyTestResults
        /\ pc[i] = "docx_metadata" =>
              possible_versions = << SMUR, AM >>
              /\ test_results = EmptyTestResults

\* C3 (the claim as stated): whatever the interleaving of two evaluations,
\* the candidate set, the test-result map and the verdict an evaluation has
\* when it returns are those it gives when run alone.
C3_IndependentInstances ==
    [][ \A i \in Slots :
          pc[i] # "done" /\ pc'[i] = "done" =>
             LET a == Alone(parser'[i])
             IN  /\ possible_versions' = a.pv
                 /\ out'[i].test_results = a.tr
                 /\ out'[i].approve_deposit = a.r.approve_deposit
                 /\ out'[i].reason = a.r.reason ]_vars

\* C4 (the claim as stated): editable-document workflow: if the sanity check
\* holds, approve_deposit is True exactly when the declared version, compared
\* case-insensitively, is Submitted or Accepted; and a document whose metadata
\* title equals the declared title, with 10000 characters of text and declared
\* version "accepted manuscript", is approved as plausible.
C4_DocxApprovesAuthorVersions ==
    \A i \in Slots :
        Returned(i) /\ IsDocx(i) =>
            /\ out[i].sanity_check = "True" =>
                  (out[i].approve_deposit <=> DeclaresSubmittedOrAccepted(parser[i]))
            /\ ( /\ parser[i].dec_ms_title # None
                 /\ parser[i].title_in_metadata = Some(100)
                 /\ parser[i].extracted_text.len = 10000
                 /\ parser[i].dec_version = Some("accepted manuscript") ) =>
                  /\ out[i].test_results["test_title_match_in_file_metadata"] = Some("True")
                  /\ out[i].sanity_check = "True"
                  /\ out[i].approve_deposit
                  /\ out[i].reason = ReasonPlausible

\* C5: fixed-layout workflow: sanity check passed and a Creative Commons
\* licence matched => the result approves the deposit, its reason is the
\* licence detection, and Submitted and Accepted are out of the candidate
\* set; for every declared version and with or without publisher tags.
C5_LicenceApproves ==
    \A i \in Slots :
        Returned(i) /\ IsPdf(i) /\ SanityCondition(r[i]) /\ LicenceFound(i) =>
            /\ out[i].approve_deposit
            /\ out[i].reason = ReasonCC
            /\ Excluded(SMUR) /\ Excluded(AM)

C5_Witness ==
    \E i \in Slots :
        /\ Returned(i) /\ IsPdf(i) /\ SanityCondition(r[i]) /\ LicenceFound(i)
        /\ ~TagsFound(i)
        /\ parser[i].dec_version = Some("submitted version")
        /\ out[i].approve_deposit

\* C6 (the claim as stated): fixed-layout workflow: a publisher tag with a
\* value and no licence => approve_deposit=False, the reason is "publisher-
\* generated, no licence evidence", Submitted and Accepted are excluded and
\* their display weights are zero.
C6_Original ==
    \A i \in Slots :
        Returned(i) /\ IsPdf(i) /\ TagsFound(i) /\ ~LicenceFound(i) =>
            /\ ~out[i].approve_deposit
            /\ out[i].reason = ReasonPublisherNoCC
            /\ Excluded(SMUR) /\ Excluded(AM)
            /\ out[i].version_confidence.SMUR = << 0, 100 >>
            /\ out[i].version_confidence.AM = << 0, 100 >>

\* C6 (amended): as above, but the reason is "publisher-generated, no licence
\* evidence" when the sanity check passed; when it failed the reason is the
\* length or title message.
C6_PublisherTagsReject ==
    \A i \in Slots :
        Returned(i) /\ IsPdf(i) /\ TagsFound(i) /\ ~LicenceFound(i) =>
            /\ ~out[i].approve_deposit
            /\ out[i].reason = IF SanityCondition(r[i]) THEN ReasonPublisherNoCC
                               ELSE IF Truthy(r[i].long_enough)
                                    THEN ReasonNoTitle(parser[i])
                                    ELSE ReasonShort(parser[i])
            /\ Excluded(SMUR) /\ Excluded(AM)
            /\ out[i].version_confidence.SMUR = << 0, 100 >>
            /\ out[i].version_confidence.AM = << 0, 100 >>

C6_Witness ==
    \E i \in Slots :
        /\ Returned(i) /\ IsPdf(i) /\ TagsFound(i) /\ ~LicenceFound(i)
        /\ SanityCondition(r[i])
        /\ parser[i].dec_version = Some("accepted manuscript")
        /\ out[i].reason = ReasonPublisherNoCC

\* C7: fixed-layout workflow: sanity check passed, no publisher tag and no
\* licence => the deposit is approved with "no evidence of publisher
\* generation" exactly when the declared version claims an author manuscript;
\* otherwise it is not approved and the reason is the mismatch warning.
C7_NoSignpostFollowsDeclaration ==
    \A i \in Slots :
        Returned(i) /\ IsPdf(i) /\ SanityCondition(r[i])
        /\ ~TagsFound(i) /\ ~LicenceFound(i) =>
            IF ClaimsAuthorManuscript(parser[i])
            THEN out[i].approve_deposit /\ out[i].reason = ReasonNoPublisherEvidence
            ELSE ~out[i].approve_deposit /\ out[i].reason = ReasonMismatch(parser[i])

C7_Witness ==
    \E i \in Slots :
        /\ Returned(i) /\ IsPdf(i) /\ SanityCondition(r[i])
        /\ ~TagsFound(i) /\ ~LicenceFound(i)
        /\ parser[i].dec_version = Some("Accepted Manuscript")
        /\ out[i].approve_deposit

\* C8 (the claim as stated): text of length 0, either workflow =>
\* length_of_extracted_text=False, sanity_check=False, approve_deposit=False.
C8_Original ==
    \A i \in Slots :
        Returned(i) /\ parser[i].extracted_text.len = 0 =>
            /\ out[i].test_results["test_length_of_extracted_text"] = Some("False")
            /\ out[i].sanity_check = "False"
            /\ ~out[i].approve_deposit

\* C8 (amended): text of length 0, either workflow, whatever the other
\* evidence => length_of_extracted_text is Indeterminate (None, not False),
\* sanity_check stays unset (None, not False) and approve_deposit=False.
C8_EmptyTextNeverApproved ==
    \A i \in Slots :
        Returned(i) /\ parser[i].extracted_text.len = 0 =>
            /\ out[i].test_results["test_length_of_extracted_text"] = Some("None")
            /\ out[i].sanity_check = "None"
            /\ ~out[i].approve_deposit

C8_Witness ==
    \E i \in Slots :
        /\ Returned(i) /\ IsPdf(i) /\ parser[i].extracted_text.len = 0
        /\ Truthy(r[i].title_match_file_metadata)
        /\ TagsFound(i)
        /\ parser[i].dec_version = Some(AM)

\* C9: the logo region of the fixed-layout workflow: with at least one logo
\* detected the candidate set afterwards is the one before, restricted to the
\* versions some detected logo indicates; with none it is unchanged.
InSomeLogo(logos, v) ==
    \E k \in 1..Len(logos) : v \in Range(indicate_ms_versions(logos[k]))

C9_LogoRefinement ==
    [][ \A i \in Slots :
          pc[i] = "pdf_logos" /\ pc'[i] = "pdf_decision" =>
             LET logos == r'[i].detected_logos[1]
                 Keep(v) == InSomeLogo(logos, v)
             IN  possible_versions' =
                   IF logos = << >> THEN possible_versions
                   ELSE SelectSeq(possible_versions, Keep) ]_vars

C9_Witness ==
    \E i \in Slots :
        /\ pc[i] = "pdf_decision"
        /\ r[i].detected_logos = Some(<< "oa logo" >>)
        /\ ~TagsFound(i)
        /\ possible_versions = << VOR >>

\* C10 (the claim as stated): when the DOI endpoint raises, the DOI test is
\* recorded as Indeterminate/Error, never as False and never left out.
C10_NetworkErrorIsRecorded ==
    \A i \in Slots :
        /\ parser[i].doi_answer = "raises" =>
              test_results["test_valid_doi_in_extracted_text"]
                 \in { Some("None"), Some("Error") }
        /\ parser[i].cerm_doi_answer = "raises" =>
              test_results["test_valid_doi_in_cermine_xml"]
                 \in { Some("None"), Some("Error") }

\* C11 (the claim as stated): fixed-layout workflow: when a DOI endpoint
\* raises, only that DOI test is degraded; the evaluation does not end in the
\* exception, the tests after it still run (their entries are recorded) and
\* the evaluation returns a result with a reason.
EndpointRaised(i) ==
    parser[i].doi_answer = "raises" \/ parser[i].cerm_doi_answer = "raises"

C11_FailureDegradesOneTest ==
    \A i \in Slots :
        IsPdf(i) /\ EndpointRaised(i) =>
            /\ pc[i] # "raised"
            /\ Returned(i) =>
                  /\ out[i].test_results["test_file_has_image_on_first_page"] # None
                  /\ out[i].test_results["detect_publisher_logos"] # None
                  /\ out[i].reason # None

\* C12 (the claim as stated): in both workflows an evaluation whose declared
\* version is absent (and whose DOI endpoints answer) does not end in an
\* exception, and when it has run through the decision region it has
\* returned a result, also when the sanity check passed.
C12_AbsentVersionStillReturns ==
    \A i \in Slots :
        parser[i].dec_version = None /\ ~EndpointRaised(i) =>
            /\ pc[i] # "raised"
            /\ SanityCondition(r[i]) /\ r[i].reason # None => Returned(i)

\* C13: an input whose extension is neither ".pdf" nor ".docx" aborts the
\* evaluation at once: no parser and no ArtemisResult exist for it, the step
\* that refuses it leaves the candidate list and the test-result map as they
\* were, and what is returned is the pair ("fail", message), not a result.
C13_UnsupportedAborts ==
    [][ \A i \in Slots :
          /\ parser'[i].file_ext \in { "", ".pdf", ".docx" }
          /\ pc[i] = "idle" /\ pc'[i] = "failed" =>
                /\ UNCHANGED << possible_versions, test_results >>
                /\ parser'[i] = NoParser /\ r'[i] = NoResult
                /\ out'[i].kind = "fail" ]_vars

C13_Witness ==
    \E i \in Slots :
        /\ pc[i] = "failed"
        /\ out[i] = [ kind |-> "fail",
                      error_msg |-> << "{} is not a supported file extension",
                                       "editable_document" >> ]
        /\ r[i] = NoResult
        /\ evaluations = 2
        /\ test_results["test_length_of_extracted_text"] # None

\* C14: every result returned by either workflow carries a reason: the reason
\* field of the response is set (not None) on every branch of the decision
\* region, the branches that do not approve included.
C14_ReasonAlwaysSet ==
    \A i \in Slots :
        Returned(i) =>
            /\ out[i].kind = "json"
            /\ out[i].reason # None
            /\ ~out[i].approve_deposit => out[i].reason \notin PositiveReasons

C14_Witness ==
    \E i \in Slots :
        /\ Returned(i) /\ IsPdf(i)
        /\ ~out[i].approve_deposit
        /\ out[i].sanity_check = "None"
        /\ out[i].reason = ReasonNoTitle(parser[i])

\* C15: exclude_versions(e_list) leaves in the candidate list exactly the
\* labels that are not in e_list, in their order; applied a second time with
\* the same list it changes nothing, and a list of labels none of which is a
\* candidate changes nothing.
C15_ExcludeIdempotent ==
    call.fn = "exclude_versions" =>
        LET Kept(v) == v \notin Range(call.e_list)
        IN  /\ possible_versions = SelectSeq(call.before, Kept)
            /\ exclude_versions(possible_versions, call.e_list) = possible_versions
            /\ Range(call.e_list) \cap Range(call.before) = { } =>
                  possible_versions = call.before

C15_Witness ==
    /\ call.fn = "exclude_versions"
    /\ call.before = ClassPossibleVersions
    /\ call.e_list = << P, "submitted version" >>
    /\ possible_versions = << SMUR, AM, VOR >>

\* C16 (the claim as stated): in every result of the fixed-layout workflow,
\* each version the workflow itself excludes (the versions missing from the
\* candidate list the same document gives when evaluated alone) has display
\* weight zero.
DisplayWeight(o, v) ==
    CASE v = SMUR -> o.version_confidence.SMUR[1]
      [] v = AM   -> o.version_confidence.AM[1]
      [] v = P    -> o.version_confidence.P[1]
      [] v = VOR  -> o.version_confidence.VOR[1]

C16_ExcludedHaveZeroWeight ==
    \A i \in Slots :
        Returned(i) /\ IsPdf(i) =>
            \A v \in Range(ClassPossibleVersions) :
                v \notin Range(Alone(parser[i]).pv) => DisplayWeight(out[i], v) = 0

\* C17 (the claim as stated): when a fixed-layout evaluation returns, the
\* test-result map of the response has an entry for every test of the
\* workflow, the two DOI resolution tests included, whether or not a DOI was
\* found.
C17_EveryTestRecorded ==
    \A i \in Slots :
        Returned(i) /\ IsPdf(i) =>
            \A t \in TestNames : out[i].test_results[t] # None

\* C18 (the claim as stated): with a non-zero error ratio a piece of text is
\* accepted as a match exactly when it differs from the query by at most
\* floor(ratio * len(query)) edit operations: ratio 0.1 and a query of 20
\* characters accept 2 errors, ratio 0.1 and a query of 5 characters accept an
\* exact match only.
C18_ErrorBudget ==
    call.fn = "find_match_in_extracted_text" /\ call.allowed_error_ratio # 0 =>
        ( call.result = "match" <=>
            call.edits <= (call.allowed_error_ratio * call.len) \div 100 )

\* C19 (the claim as stated): the text that is searched holds no line break
\* and no two blanks in a row, whatever the extracted text was.
C19_SingleBlanks ==
    call.fn = "continuous_text" =>
        LET t == call.result
        IN  /\ \A k \in 1..Len(t) : t[k] # "\n"
            /\ \A k \in 1..(Len(t) - 1) : ~(t[k] = " " /\ t[k + 1] = " ")

\* C20 (the claim as stated): when a fixed-layout evaluation returns, also
\* after earlier evaluations in the same process, at least one version is
\* left in the candidate list.
C20_CandidatesNeverEmpty ==
    \A i \in Slots :
        Returned(i) /\ IsPdf(i) => possible_versions # << >>

====
